---- MODULE Spec2Model ----
(***************************************************************************)
(* Model of github.com/Doraemonkeys/ParallelDownload (down.go):            *)
(* ParallelDownload probes the origin, falls back to Download when the     *)
(* probe returns an error, and otherwise splits [0,file_size) into         *)
(* worker_count ranges, each fetched by worker.writeRange in a goroutine   *)
(* of an errgroup with a shared context.                                   *)
(***************************************************************************)
EXTENDS Integers, FiniteSets, Sequences, TLC

\* ---------------------------------------------------------------- bounds
\* largest Content-Length the origin declares for the resource
MaxSize == 3
\* largest worker_count the caller passes
MaxWorkers == 2
\* len(buf) of writeRange (4*1024 in the source), scaled down
BufSize == 2

Workers == 0 .. (MaxWorkers - 1)
\* worker_count is an int64 the caller chooses freely: negative, zero, positive
WorkerCounts == -1 .. MaxWorkers

Min(a, b) == IF a < b THEN a ELSE b
Max(a, b) == IF a > b THEN a ELSE b
Abs(a) == IF a < 0 THEN -a ELSE a

\* Go's integer division truncates toward zero (b # 0)
GoDiv(a, b) ==
    IF (a >= 0) = (b > 0) THEN Abs(a) \div Abs(b) ELSE -(Abs(a) \div Abs(b))

\* ---------------------------------------------------------------- errors
\* an error value: its kind and the part number its message names (-1: none)
Err(k, p) == [kind |-> k, part |-> p]
\* a nil error
NoErr == Err("nil", -1)
\* the call has not returned yet
NotReturned == Err("none", -1)
\* the process died of a run-time panic
Panicked == Err("panic", -1)

\* ---------------------------------------------------------------- origin
\* what the origin answers to the probe GET: ok = client.Do succeeded,
\* hasCL = a Content-Length header is present, clOK = strconv.ParseInt accepts
\* it, cl = its value, ar = the Accept-Ranges header
ProbeResponses ==
    [ok : {TRUE}, hasCL : {TRUE}, clOK : {TRUE}, cl : -1 .. MaxSize,
     ar : {"absent", "none", "bytes"}]
    \cup [ok : {TRUE}, hasCL : {TRUE}, clOK : {FALSE}, cl : {0},
          ar : {"absent", "bytes"}]
    \cup [ok : {TRUE}, hasCL : {FALSE}, clOK : {FALSE}, cl : {0},
          ar : {"absent", "bytes"}]
    \cup {[ok |-> FALSE, hasCL |-> FALSE, clOK |-> FALSE, cl |-> 0,
           ar |-> "absent"]}

\* no probe response received yet
NoResponse ==
    [ok |-> FALSE, hasCL |-> FALSE, clOK |-> FALSE, cl |-> 0, ar |-> "absent"]

\* the url argument: http.NewRequest accepts it, or url.Parse rejects it
Urls == {"wellformed", "malformed"}

\* the policies an origin may follow for the range requests of one call
Policies ==
    {"conforming", "short", "short_declared_full", "long",
     "long_declared_range", "not_found", "no_length", "bad_length"}

VARIABLES
    url,            \* argument of ParallelDownload
    worker_count,   \* argument of ParallelDownload
    origin,         \* how the origin answers the range requests of this call
    pc,             \* position of ParallelDownload / Download
    probeResp,      \* the probe response received
    file_size,      \* file_size returned by getInfoAndCheckRangeSupport
    perr,           \* err returned by getInfoAndCheckRangeSupport
    result,         \* the error the call returned (NotReturned before)
    fileOpen,       \* the destination handle f is open
    partial_size,   \* file_size / worker_count
    num,            \* loop variable of the launch loop
    start,          \* loop variable start of the launch loop
    gErr,           \* errgroup: the error kept by errOnce
    ctxDone,        \* the errgroup context is cancelled
    wpc,            \* per worker: position in the errgroup goroutine
    wstart,         \* per worker: tempStart
    wend,           \* per worker: tempEnd-1
    woff,           \* per worker: the local start of writeRange
    written,        \* per worker: written
    wsize,          \* per worker: size returned by getRangeBody
    wstatus,        \* per worker: status code of the range response
    wfrom,          \* per worker: resource offset of the first body byte
    bodyLeft,       \* per worker: bytes of the response body not yet read
    bodyOpen,       \* per worker: the response body is open
    wret,           \* per worker: the error writeRange returned
    wstop,          \* per worker: the return statement writeRange took
    writes,         \* set of <<worker, offset>>: bytes stored by a worker's WriteAt
    file,           \* set of <<offset, byte>>: content of the destination
    rangeReqs,      \* per worker: number of GETs carrying a Range header
    rangeHdr,       \* set of <<part, start, end>>: the Range headers sent
    plainReqs,      \* [probe, fallback]: number of GETs without Range header
    probeBodyOpen,  \* the probe response body is open
    dlBodyOpen      \* the fallback response body is open

vars == <<url, worker_count, origin, pc, probeResp, file_size, perr, result, fileOpen,
          partial_size, num, start, gErr, ctxDone, wpc, wstart, wend, woff,
          written, wsize, wstatus, wfrom, bodyLeft, bodyOpen, wret, wstop,
          writes, file, rangeReqs, rangeHdr, plainReqs, probeBodyOpen,
          dlBodyOpen>>

groupVars == <<gErr, ctxDone>>
workerVars == <<wpc, wstart, wend, woff, written, wsize, wstatus, wfrom,
                bodyLeft, bodyOpen, wret, wstop, writes, file, rangeReqs,
                rangeHdr>>

Init ==
    /\ url \in Urls
    /\ worker_count \in WorkerCounts
    /\ origin \in Policies
    /\ pc = "probe"
    /\ probeResp = NoResponse
    /\ file_size = 0
    /\ perr = "nil"
    /\ result = NotReturned
    /\ fileOpen = FALSE
    /\ partial_size = 0
    /\ num = 0
    /\ start = 0
    /\ gErr = NoErr
    /\ ctxDone = FALSE
    /\ wpc = [i \in Workers |-> "idle"]
    /\ wstart = [i \in Workers |-> 0]
    /\ wend = [i \in Workers |-> 0]
    /\ woff = [i \in Workers |-> 0]
    /\ written = [i \in Workers |-> 0]
    /\ wsize = [i \in Workers |-> 0]
    /\ wstatus = [i \in Workers |-> "none"]
    /\ wfrom = [i \in Workers |-> -1]
    /\ bodyLeft = [i \in Workers |-> 0]
    /\ bodyOpen = [i \in Workers |-> FALSE]
    /\ wret = [i \in Workers |-> NoErr]
    /\ wstop = [i \in Workers |-> "none"]
    /\ writes = {}
    /\ file = {}
    /\ rangeReqs = [i \in Workers |-> 0]
    /\ rangeHdr = {}
    /\ plainReqs = [probe |-> 0, fallback |-> 0]
    /\ probeBodyOpen = FALSE
    /\ dlBodyOpen = FALSE

\* ------------------------------------------------- getInfoAndCheckRangeSupport
\* as GetInfoAndCheckRangeSupport, without the check of the Accept-Ranges unit
GetInfoAnyUnit(resp) ==
    IF ~resp.ok THEN [size |-> 0, err |-> "transport"]
    ELSE IF ~resp.hasCL THEN [size |-> 0, err |-> "no_length"]
    ELSE IF ~resp.clOK THEN [size |-> 0, err |-> "bad_length"]
    ELSE IF resp.ar = "absent" THEN [size |-> resp.cl, err |-> "no_accept_ranges"]
    ELSE [size |-> resp.cl, err |-> "nil"]

\* lines 182-211: the (size, err) pair the prober returns for a response
GetInfoAndCheckRangeSupport(resp) ==
    IF ~resp.ok THEN [size |-> 0, err |-> "transport"]
    ELSE IF ~resp.hasCL THEN [size |-> 0, err |-> "no_length"]
    ELSE IF ~resp.clOK THEN [size |-> 0, err |-> "bad_length"]
    ELSE IF resp.ar = "absent" THEN [size |-> resp.cl, err |-> "no_accept_ranges"]
    ELSE IF resp.ar # "bytes" THEN [size |-> resp.cl, err |-> "not_bytes"]
    ELSE [size |-> resp.cl, err |-> "nil"]

\* lines 72-76: where ParallelDownload goes after the probe
AfterProbe(err) == IF err # "nil" THEN "download" ELSE "size_check"

\* ParallelDownload, lines 71-76: http.NewRequest rejects a malformed url
\* before any GET is sent (lines 184-187); otherwise the probe GET is sent
Probe ==
    /\ pc = "probe"
    /\ IF url = "malformed"
       THEN /\ probeResp' = NoResponse
            /\ file_size' = 0
            /\ perr' = "new_request"
            /\ probeBodyOpen' = FALSE
            /\ pc' = AfterProbe("new_request")
            /\ UNCHANGED plainReqs
       ELSE /\ \E resp \in ProbeResponses :
                 LET r == GetInfoAndCheckRangeSupport(resp) IN
                 /\ probeResp' = resp
                 /\ file_size' = r.size
                 /\ perr' = r.err
                 /\ probeBodyOpen' = resp.ok
                 /\ pc' = AfterProbe(r.err)
            /\ plainReqs' = [plainReqs EXCEPT !.probe = @ + 1]
    /\ UNCHANGED <<url, worker_count, origin, result, fileOpen, partial_size, num, start,
                   dlBodyOpen>>
    /\ UNCHANGED groupVars
    /\ UNCHANGED workerVars

\* ------------------------------------------------------------ ParallelDownload
\* lines 82-99: the size check, os.OpenFile, errgroup.WithContext and
\* partial_size; file_size / worker_count panics when worker_count = 0, and
\* the deferred f.Close() of line 89 runs while the panic unwinds
OpenFile ==
    /\ pc = "size_check"
    /\ IF file_size <= 0
       THEN /\ result' = Err("file_size", -1)
            /\ pc' = "done"
            /\ UNCHANGED <<fileOpen, partial_size>>
       ELSE \E opened \in BOOLEAN :
            IF ~opened
            THEN /\ result' = Err("open", -1)
                 /\ pc' = "done"
                 /\ UNCHANGED <<fileOpen, partial_size>>
            ELSE IF worker_count = 0
                 THEN /\ fileOpen' = FALSE
                      /\ result' = Panicked
                      /\ pc' = "crashed"
                      /\ UNCHANGED partial_size
                 ELSE /\ fileOpen' = TRUE
                      /\ partial_size' = GoDiv(file_size, worker_count)
                      /\ pc' = "launch"
                      /\ UNCHANGED result
    /\ UNCHANGED <<url, worker_count, origin, probeResp, file_size, perr, num, start,
                   plainReqs, probeBodyOpen, dlBodyOpen>>
    /\ UNCHANGED groupVars
    /\ UNCHANGED workerVars

\* as RangeEnd, the last part cut like the others
RangeEndNoRemainder(n, st) == st + partial_size

\* lines 101-105: the end (exclusive) of part n, given the loop's start
RangeEnd(n, st) ==
    IF n = worker_count - 1 THEN file_size ELSE st + partial_size

\* lines 100-113: one iteration of the launch loop; errGroup.Go starts the
\* goroutine of part num with the range [start, end-1]
LaunchOne ==
    /\ pc = "launch"
    /\ num < worker_count
    /\ LET end == RangeEnd(num, start) IN
         /\ wstart' = [wstart EXCEPT ![num] = start]
         /\ wend' = [wend EXCEPT ![num] = end - 1]
         /\ woff' = [woff EXCEPT ![num] = start]
         /\ start' = end
    /\ wpc' = [wpc EXCEPT ![num] = "request"]
    /\ num' = num + 1
    /\ UNCHANGED <<url, worker_count, origin, pc, probeResp, file_size, perr, result,
                   fileOpen, partial_size, plainReqs, probeBodyOpen,
                   dlBodyOpen>>
    /\ UNCHANGED groupVars
    /\ UNCHANGED <<written, wsize, wstatus, wfrom, bodyLeft, bodyOpen, wret,
                   wstop, writes, file, rangeReqs, rangeHdr>>

\* the parts an errGroup.Go call has started
Launched == {i \in Workers : i < num}

\* as AllDone, satisfied by the first goroutine that is done
AnyDone == \E i \in Launched : wpc[i] = "done"

\* errgroup.Wait: every goroutine of the group has called done
AllDone == \A i \in Launched : wpc[i] = "done"

\* a goroutine of the group panicked (line 178) and the process has not
\* exited yet
Panicking == \E i \in Launched : wstop[i] = "panic"

\* what errGroup.Wait hands to line 114 once every goroutine is done: the kept
\* error; when a goroutine panicked, an errgroup release that passes the
\* panic on to Wait panics here instead
WaitOutcomes == {gErr} \cup (IF Panicking THEN {Panicked} ELSE {})

\* lines 114-118 and the deferred f.Close() of line 89: errGroup.Wait blocks
\* until every goroutine is done, cancels the context and returns the kept
\* error; f is closed on the return and also while a panic unwinds
Wait ==
    /\ pc = "launch"
    /\ num >= worker_count
    /\ AllDone
    /\ \E r \in WaitOutcomes :
         /\ result' = r
         /\ pc' = IF r = Panicked THEN "crashed" ELSE "done"
    /\ ctxDone' = TRUE
    /\ fileOpen' = FALSE
    /\ UNCHANGED <<url, worker_count, origin, probeResp, file_size, perr, partial_size, num,
                   start, plainReqs, probeBodyOpen, dlBodyOpen, gErr>>
    /\ UNCHANGED workerVars

\* -------------------------------------------------------------------- Download
\* lines 28-37: the GET of the whole resource, without a Range header. For a
\* malformed url http.NewRequest returns a nil request, and line 29 sets a
\* header on it before line 30 looks at the error: nil dereference, panic
DownloadRequest ==
    /\ pc = "download"
    /\ IF url = "malformed"
       THEN /\ result' = Panicked
            /\ pc' = "crashed"
            /\ UNCHANGED <<plainReqs, dlBodyOpen>>
       ELSE /\ plainReqs' = [plainReqs EXCEPT !.fallback = @ + 1]
            /\ \E ok \in BOOLEAN :
                 IF ok
                 THEN /\ dlBodyOpen' = TRUE
                      /\ pc' = "copy"
                      /\ UNCHANGED result
                 ELSE /\ result' = Err("fallback_request", -1)
                      /\ pc' = "done"
                      /\ UNCHANGED dlBodyOpen
    /\ UNCHANGED <<url, worker_count, origin, probeResp, file_size, perr, fileOpen,
                   partial_size, num, start, probeBodyOpen>>
    /\ UNCHANGED groupVars
    /\ UNCHANGED workerVars

\* the number of bytes of the resource, which is the body of the fallback
\* GET: the length the probe response declared, or any length when it
\* declared none
DownloadBodyLens ==
    IF probeResp.ok /\ probeResp.hasCL /\ probeResp.clOK /\ probeResp.cl >= 0
    THEN {probeResp.cl} ELSE 0 .. MaxSize

\* lines 44-53: what Download leaves in the destination and returns, for a
\* body of n bytes of which io.Copy stored k: os.Create truncates the file
\* and io.Copy stores the body from offset 0 until io.EOF or an error
DownloadOutcomes(n) ==
    {[e |-> "create", k |-> 0], [e |-> "nil", k |-> n]}
    \cup [e : {"copy"}, k : 0 .. n]

\* lines 38-53: os.Create, io.Copy and the deferred Close calls
DownloadCopy ==
    /\ pc = "copy"
    /\ \E n \in DownloadBodyLens :
       \E o \in DownloadOutcomes(n) :
         /\ result' = IF o.e = "nil" THEN NoErr ELSE Err(o.e, -1)
         /\ file' = {<<b, b>> : b \in 0 .. (o.k - 1)}
    /\ dlBodyOpen' = FALSE
    /\ pc' = "done"
    /\ UNCHANGED <<url, worker_count, origin, probeResp, file_size, perr, fileOpen,
                   partial_size, num, start, plainReqs, probeBodyOpen>>
    /\ UNCHANGED groupVars
    /\ UNCHANGED <<wpc, wstart, wend, woff, written, wsize, wstatus, wfrom,
                   bodyLeft, bodyOpen, wret, wstop, writes, rangeReqs,
                   rangeHdr>>

\* ---------------------------------------------------------------- writeRange
\* what an origin of policy pol answers to the range GET of want bytes from
\* offset st, when the request gets through: status = the status code,
\* from = the resource offset of the first body byte (-1: the body is not
\* resource data), len = number of body bytes actually sent, hasCL, clOK,
\* cl = the Content-Length header as for the probe
Answer(status, from, len, hasCL, clOK, cl) ==
    [ok |-> TRUE, status |-> status, from |-> from, len |-> len,
     hasCL |-> hasCL, clOK |-> clOK, cl |-> cl]
PolicyResponse(pol, st, want) ==
    CASE pol = "conforming" ->
           \* the range as asked; an unsatisfiable header (end < start) is
           \* ignored and the whole resource sent
           IF want >= 1 THEN Answer("206", st, want, TRUE, TRUE, want)
           ELSE Answer("200", 0, file_size, TRUE, TRUE, file_size)
      [] pol = "short" ->
           \* one byte less than asked, declared as sent
           Answer("206", st, Max(want - 1, 0), TRUE, TRUE, Max(want - 1, 0))
      [] pol = "short_declared_full" ->
           \* one byte less than asked, declared as asked
           Answer("206", st, Max(want - 1, 0), TRUE, TRUE, Max(want, 0))
      [] pol = "long" ->
           \* one byte more than asked, declared as sent
           Answer("206", st, Max(want, 0) + 1, TRUE, TRUE, Max(want, 0) + 1)
      [] pol = "long_declared_range" ->
           \* one byte more than asked, declared as asked
           Answer("206", st, Max(want, 0) + 1, TRUE, TRUE, Max(want, 0))
      [] pol = "not_found" ->
           \* an error status with a one-byte error page
           Answer("404", -1, 1, TRUE, TRUE, 1)
      [] pol = "no_length" ->
           \* no Content-Length header (chunked transfer)
           Answer("206", st, Max(want, 0), FALSE, FALSE, 0)
      [] pol = "bad_length" ->
           \* a Content-Length that strconv.ParseInt rejects
           Answer("206", st, Max(want, 0), TRUE, FALSE, 0)

\* client.Do failed: no response
NoAnswer ==
    [ok |-> FALSE, status |-> "none", from |-> -1, len |-> 0,
     hasCL |-> FALSE, clOK |-> FALSE, cl |-> 0]

\* what client.Do of one range GET may yield: the origin's answer, or a
\* transport failure
RangeResponses(st, want) == {PolicyResponse(origin, st, want), NoAnswer}

\* the error each return statement of writeRange yields for part p
ReturnErr(stop, p) ==
    CASE stop = "request"     -> Err("request", p)        \* line 125
      [] stop = "cancel"      -> NoErr                    \* line 133
      [] stop = "write_err"   -> Err("write", p)          \* line 140
      [] stop = "short_write" -> Err("write", p)          \* line 143
      [] stop = "eos"         -> NoErr                    \* line 154
      [] stop = "mismatch"    -> Err("size_not_match", p) \* line 156
      [] stop = "stream"      -> Err("download", p)       \* line 159

\* as AfterGetRangeBody, asking again after a failed request
RetryGetRangeBody(failed) == IF failed THEN "request" ELSE "check"

\* lines 124-127: writeRange returns when getRangeBody failed, else goes on
\* to the read loop
AfterGetRangeBody(failed) == IF failed THEN "returned" ELSE "check"

\* lines 123-127 with getRangeBody (lines 164-180): the GET with the header
\* Range: bytes=start-end. A response without Content-Length makes
\* resp.Header["Content-Length"][0] panic in the worker's goroutine: while the
\* panic unwinds, the done() that errGroup.Go deferred runs, so the group
\* counts the goroutine as finished although writeRange returned nothing. A
\* length that ParseInt rejects is returned with its body and an error, and
\* the body is never closed.
GetRangeBody(i) ==
    /\ pc = "launch"
    /\ wpc[i] = "request"
    /\ rangeReqs' = [rangeReqs EXCEPT ![i] = @ + 1]
    /\ rangeHdr' = rangeHdr \cup {<<i, wstart[i], wend[i]>>}
    /\ \E resp \in RangeResponses(wstart[i], wend[i] - wstart[i] + 1) :
         IF ~resp.ok
         THEN /\ wstop' = [wstop EXCEPT ![i] = "request"]
              /\ wret' = [wret EXCEPT ![i] = ReturnErr("request", i)]
              /\ wpc' = [wpc EXCEPT ![i] = AfterGetRangeBody(TRUE)]
              /\ UNCHANGED <<wsize, wstatus, wfrom, bodyLeft, bodyOpen, pc,
                             result>>
         ELSE IF ~resp.hasCL
         THEN /\ wstop' = [wstop EXCEPT ![i] = "panic"]
              /\ wpc' = [wpc EXCEPT ![i] = "done"]
              /\ bodyOpen' = [bodyOpen EXCEPT ![i] = TRUE]
              /\ UNCHANGED <<wret, wsize, wstatus, wfrom, bodyLeft, pc,
                             result>>
         ELSE IF ~resp.clOK
         THEN /\ wstop' = [wstop EXCEPT ![i] = "request"]
              /\ wret' = [wret EXCEPT ![i] = ReturnErr("request", i)]
              /\ wpc' = [wpc EXCEPT ![i] = AfterGetRangeBody(TRUE)]
              /\ bodyOpen' = [bodyOpen EXCEPT ![i] = TRUE]
              /\ UNCHANGED <<wsize, wstatus, wfrom, bodyLeft, pc, result>>
         ELSE /\ wsize' = [wsize EXCEPT ![i] = resp.cl]
              /\ wstatus' = [wstatus EXCEPT ![i] = resp.status]
              /\ wfrom' = [wfrom EXCEPT ![i] = resp.from]
              /\ bodyLeft' = [bodyLeft EXCEPT ![i] = resp.len]
              /\ bodyOpen' = [bodyOpen EXCEPT ![i] = TRUE]
              /\ wpc' = [wpc EXCEPT ![i] = AfterGetRangeBody(FALSE)]
              /\ UNCHANGED <<wstop, wret, pc, result>>
    /\ UNCHANGED <<url, worker_count, origin, probeResp, file_size, perr, fileOpen,
                   partial_size, num, start, plainReqs, probeBodyOpen,
                   dlBodyOpen>>
    /\ UNCHANGED groupVars
    /\ UNCHANGED <<wstart, wend, woff, written, writes, file>>

\* as CheckCtx, never looking at ctx.Done()
CheckCtxBlind(i) ==
    /\ pc = "launch"
    /\ wpc[i] = "check"
    /\ wpc' = [wpc EXCEPT ![i] = "read"]
    /\ UNCHANGED <<url, worker_count, origin, pc, probeResp, file_size, perr,
                   result, fileOpen, partial_size, num, start, plainReqs,
                   probeBodyOpen, dlBodyOpen>>
    /\ UNCHANGED groupVars
    /\ UNCHANGED <<wstart, wend, woff, written, wsize, wstatus, wfrom,
                   bodyLeft, bodyOpen, wret, wstop, writes, file, rangeReqs,
                   rangeHdr>>

\* lines 131-135: the select on ctx.Done() before each body.Read; on return
\* the deferred body.Close() of line 127 drops what is unread
CheckCtx(i) ==
    /\ pc = "launch"
    /\ wpc[i] = "check"
    /\ IF ctxDone
       THEN /\ wstop' = [wstop EXCEPT ![i] = "cancel"]
            /\ wret' = [wret EXCEPT ![i] = ReturnErr("cancel", i)]
            /\ bodyOpen' = [bodyOpen EXCEPT ![i] = FALSE]
            /\ bodyLeft' = [bodyLeft EXCEPT ![i] = 0]
            /\ wpc' = [wpc EXCEPT ![i] = "returned"]
       ELSE /\ wpc' = [wpc EXCEPT ![i] = "read"]
            /\ UNCHANGED <<wstop, wret, bodyOpen, bodyLeft>>
    /\ UNCHANGED <<url, worker_count, origin, pc, probeResp, file_size, perr, result,
                   fileOpen, partial_size, num, start, plainReqs,
                   probeBodyOpen, dlBodyOpen>>
    /\ UNCHANGED groupVars
    /\ UNCHANGED <<wstart, wend, woff, written, wsize, wstatus, wfrom, writes,
                   file, rangeReqs, rangeHdr>>

\* body.Read(buf) on a body with left bytes to come: nr bytes and err2;
\* io.EOF comes with or after the last byte, a nil error with at least one
\* byte, a transport error at any point
ReadOutcomes(left) ==
    {r \in [nr : 0 .. Min(BufSize, left), e2 : {"nil", "eof", "err"}] :
        /\ r.e2 = "eof" => r.nr = left
        /\ r.e2 = "nil" => r.nr > 0}

\* File.WriteAt(buf[0:nr], start): nw bytes stored; os.File returns a non-nil
\* error exactly when nw # nr
WriteOutcomes(nr) ==
    {w \in [nw : 0 .. nr, werr : BOOLEAN] : w.werr = (w.nw # nr)}

\* as ChunkStop, without the comparison of size and written
ChunkStopNoSizeCheck(nr, nw, werr, e2, size, wr) ==
    IF nr > 0 /\ werr THEN "write_err"
    ELSE IF nr > 0 /\ nr # nw THEN "short_write"
    ELSE IF e2 = "eof" THEN "eos"
    ELSE IF e2 = "err" THEN "stream"
    ELSE "continue"

\* lines 137-160: which return statement one loop iteration takes, or
\* "continue"; wr is the value of written after line 148
ChunkStop(nr, nw, werr, e2, size, wr) ==
    IF nr > 0 /\ werr THEN "write_err"
    ELSE IF nr > 0 /\ nr # nw THEN "short_write"
    ELSE IF e2 = "eof" THEN (IF size = wr THEN "eos" ELSE "mismatch")
    ELSE IF e2 = "err" THEN "stream"
    ELSE "continue"

\* as Advance, the offset left where it was
AdvanceNot(st, nw) == st

\* line 145: the offset of the next WriteAt
Advance(st, nw) == nw + st

\* byte number idx of a body that starts at resource offset from: the
\* resource byte from+idx, or -1 when it is not a byte of the resource
BodyByte(from, idx) ==
    IF from < 0 \/ from + idx >= file_size THEN -1 ELSE from + idx

\* lines 136-160: one body.Read, the WriteAt of what was read, and the checks;
\* on return the deferred body.Close() of line 127 drops what is unread
ReadWrite(i) ==
    /\ pc = "launch"
    /\ wpc[i] = "read"
    /\ \E r \in ReadOutcomes(bodyLeft[i]) :
       \E w \in WriteOutcomes(r.nr) :
         LET failed == r.nr > 0 /\ (w.werr \/ r.nr # w.nw)
             wr == IF failed THEN written[i] ELSE written[i] + w.nw
             stop == ChunkStop(r.nr, w.nw, w.werr, r.e2, wsize[i], wr)
         IN
         /\ writes' = writes \cup {<<i, woff[i] + k>> : k \in 0 .. (w.nw - 1)}
         /\ file' = {f \in file : f[1] \notin woff[i] .. (woff[i] + w.nw - 1)}
                     \cup {<<woff[i] + k, BodyByte(wfrom[i], written[i] + k)>> :
                              k \in 0 .. (w.nw - 1)}
         /\ bodyLeft' = [bodyLeft EXCEPT ![i] =
                            IF stop = "continue" THEN @ - r.nr ELSE 0]
         /\ woff' = [woff EXCEPT ![i] = IF failed THEN @ ELSE Advance(@, w.nw)]
         /\ written' = [written EXCEPT ![i] = wr]
         /\ IF stop = "continue"
            THEN /\ wpc' = [wpc EXCEPT ![i] = "check"]
                 /\ UNCHANGED <<wstop, wret, bodyOpen>>
            ELSE /\ wstop' = [wstop EXCEPT ![i] = stop]
                 /\ wret' = [wret EXCEPT ![i] = ReturnErr(stop, i)]
                 /\ bodyOpen' = [bodyOpen EXCEPT ![i] = FALSE]
                 /\ wpc' = [wpc EXCEPT ![i] = "returned"]
    /\ UNCHANGED <<url, worker_count, origin, pc, probeResp, file_size, perr, result,
                   fileOpen, partial_size, num, start, plainReqs,
                   probeBodyOpen, dlBodyOpen>>
    /\ UNCHANGED groupVars
    /\ UNCHANGED <<wstart, wend, wsize, wstatus, wfrom, rangeReqs, rangeHdr>>

\* -------------------------------------------------------------------- errgroup
\* as KeepErr, the last error replacing the kept one
KeepLastErr(kept, e) == IF e # NoErr THEN e ELSE kept

\* errOnce.Do: the group keeps the first non-nil error handed to it
KeepErr(kept, e) == IF kept = NoErr THEN e ELSE kept

\* the context is cancelled by the first non-nil error
CancelOn(done, e) == done \/ e # NoErr

\* the goroutine errGroup.Go started (lines 109-111): after writeRange has
\* returned, a non-nil error goes through errOnce (kept, context cancelled),
\* then the goroutine is done
GroupDone(i) ==
    /\ pc = "launch"
    /\ wpc[i] = "returned"
    /\ gErr' = KeepErr(gErr, wret[i])
    /\ ctxDone' = CancelOn(ctxDone, wret[i])
    /\ wpc' = [wpc EXCEPT ![i] = "done"]
    /\ UNCHANGED <<url, worker_count, origin, pc, probeResp, file_size, perr, result,
                   fileOpen, partial_size, num, start, plainReqs,
                   probeBodyOpen, dlBodyOpen>>
    /\ UNCHANGED <<wstart, wend, woff, written, wsize, wstatus, wfrom,
                   bodyLeft, bodyOpen, wret, wstop, writes, file, rangeReqs,
                   rangeHdr>>

\* the Go runtime, after the deferred calls of the panicking goroutine have
\* run, reports the panic and exits the process: at any moment from then on,
\* before or after ParallelDownload has returned to its caller
Exit ==
    /\ pc \in {"launch", "done"}
    /\ Panicking
    /\ pc' = "crashed"
    /\ result' = IF pc = "done" THEN result ELSE Panicked
    /\ UNCHANGED <<url, worker_count, origin, probeResp, file_size, perr, fileOpen,
                   partial_size, num, start, plainReqs, probeBodyOpen,
                   dlBodyOpen>>
    /\ UNCHANGED groupVars
    /\ UNCHANGED workerVars

\* ------------------------------------------------------------------------ spec
Next ==
    \/ Probe
    \/ OpenFile
    \/ LaunchOne
    \/ Wait
    \/ Exit
    \/ DownloadRequest
    \/ DownloadCopy
    \/ \E i \in Workers : GetRangeBody(i)
    \/ \E i \in Workers : CheckCtx(i)
    \/ \E i \in Workers : ReadWrite(i)
    \/ \E i \in Workers : GroupDone(i)

Spec == Init /\ [][Next]_vars

\* the Go scheduler runs every runnable goroutine, and every pending request,
\* read and write returns: each step that stays enabled is eventually taken
Fairness ==
    /\ WF_vars(Probe)
    /\ WF_vars(OpenFile)
    /\ WF_vars(LaunchOne)
    /\ WF_vars(Wait)
    /\ WF_vars(Exit)
    /\ WF_vars(DownloadRequest)
    /\ WF_vars(DownloadCopy)
    /\ \A i \in Workers :
         /\ WF_vars(GetRangeBody(i))
         /\ WF_vars(CheckCtx(i))
         /\ WF_vars(ReadWrite(i))
         /\ WF_vars(GroupDone(i))

FairSpec == Spec /\ Fairness

\* ---------------------------------------------------------------- properties
\* the bytes of the inclusive range handed to part i
RangeSet(i) == wstart[i] .. wend[i]

\* the parts the caller asked for
Parts == {i \in Workers : i < worker_count}

\* the launch loop has handed out every range
AllLaunched == worker_count >= 1 /\ num = worker_count

\* writeRange of part i returned because of a request, write, stream or size error
Failed(i) ==
    wstop[i] \in {"request", "write_err", "short_write", "stream", "mismatch"}

\* the call went down the ranged path and has returned from errGroup.Wait
RangedReturn == pc = "done" /\ perr = "nil" /\ file_size > 0 /\ num >= 1

\* C1: for size > 0 and workerCount >= 1 the ranges handed to the workers are
\* exactly workerCount in number, start at 0, each next one starts right after
\* the previous one ends, the last one ends at size-1, no two share a byte,
\* their union is [0,size), every range but the last has size/workerCount
\* bytes and the last has the remainder of the division on top.
C1_PartitionExact ==
    AllLaunched =>
        /\ Cardinality(Launched) = worker_count
        /\ Launched = Parts
        /\ wstart[0] = 0
        /\ \A i \in Parts : i + 1 < worker_count => wstart[i + 1] = wend[i] + 1
        /\ wend[worker_count - 1] = file_size - 1
        /\ \A i, j \in Parts : i # j => RangeSet(i) \cap RangeSet(j) = {}
        /\ UNION {RangeSet(i) : i \in Parts} = 0 .. (file_size - 1)
        /\ \A i \in Parts :
             Cardinality(RangeSet(i)) =
                IF i = worker_count - 1
                THEN (file_size \div worker_count) + (file_size % worker_count)
                ELSE file_size \div worker_count

\* C1 witness: three bytes split between two workers, remainder in the last
C1_Witness ==
    /\ AllLaunched
    /\ worker_count = 2
    /\ file_size = 3
    /\ wend[0] = 0
    /\ wstart[1] = 1
    /\ wend[1] = 2

\* C2: if a worker ended with a request, write, stream or size-mismatch error
\* then, once ParallelDownload has returned, it returned a non-nil error and
\* every one of the workerCount goroutines is done.
C2_FailFast ==
    (pc = "done" /\ \E i \in Parts : Failed(i)) =>
        /\ result # NoErr
        /\ result # NotReturned
        /\ \A i \in Parts : wpc[i] = "done"

\* C2 witness: the call returned after part 1 failed on a size mismatch while
\* part 0 had its response
C2_Witness ==
    /\ pc = "done"
    /\ worker_count = 2
    /\ wstop[1] = "mismatch"
    /\ wstop[0] \in {"eos", "cancel"}
    /\ result.kind = "size_not_match"

\* a goroutine of the group hands a non-nil error to errOnce in this step
Hands(i) == wpc[i] = "returned" /\ wpc'[i] = "done" /\ wret[i] # NoErr

\* C3: first error wins. The first non-nil error handed to the group is kept,
\* names the part that handed it and cancels the context in the same step; a
\* kept error is never replaced; and the call returns exactly the kept error.
C3_FirstErrorWins ==
    /\ [][\A i \in Workers :
            (Hands(i) /\ gErr = NoErr) =>
                (gErr' = wret[i] /\ gErr'.part = i /\ ctxDone')]_vars
    /\ [][gErr # NoErr => gErr' = gErr]_vars
    /\ [](RangedReturn => result = gErr)
    /\ []((RangedReturn /\ \E i \in Parts : Failed(i)) =>
            \E i \in Parts : Failed(i) /\ result = wret[i] /\ result.part = i)

\* C3 witness: both parts failed with different errors, part 1's was recorded
\* first and is the one returned
C3_Witness ==
    /\ pc = "done"
    /\ wstop[0] = "stream"
    /\ wstop[1] = "request"
    /\ result = Err("request", 1)

\* C4 (as claimed): a worker that stopped on the cancellation signal returns
\* an outcome that is not success.
C4_CanceledNotSuccess ==
    \A i \in Workers : wstop[i] = "cancel" => wret[i] # NoErr

\* C5 (as claimed): a success of the ranged path means every part read to
\* end-of-stream with written equal to the declared length; a worker stops on
\* cancellation only after a failure is kept, and the call then returns that
\* failure.
C5_SuccessMeansAllCompleted ==
    /\ (RangedReturn /\ result = NoErr) =>
          \A i \in Parts : wstop[i] = "eos" /\ written[i] = wsize[i]
    /\ \A i \in Workers : wstop[i] = "cancel" => gErr # NoErr
    /\ (RangedReturn /\ \E i \in Parts : wstop[i] = "cancel") =>
          (result # NoErr /\ result = gErr /\ \E j \in Parts : Failed(j))

\* the probe got a length but no "bytes" range support
SizeButNoRanges ==
    /\ pc # "probe"
    /\ probeResp.ok /\ probeResp.hasCL /\ probeResp.clOK
    /\ probeResp.ar # "bytes"

\* C6: when the probe determines the size but the origin does not advertise
\* byte ranges (Accept-Ranges absent or not "bytes"), the call is in Download:
\* no request with a Range header is sent and no range worker is launched.
C6_FallbackNoRange ==
    SizeButNoRanges =>
        /\ pc \in {"download", "copy", "done"}
        /\ rangeHdr = {}
        /\ \A i \in Workers : rangeReqs[i] = 0 /\ wpc[i] = "idle"
        /\ num = 0
        /\ plainReqs.fallback = (IF pc = "download" THEN 0 ELSE 1)
        /\ pc = "done" =>
             result.kind \in {"nil", "fallback_request", "create", "copy"}

\* C6 witness: Accept-Ranges: none, and the fallback has copied the resource
C6_Witness ==
    /\ SizeButNoRanges
    /\ probeResp.ar = "none"
    /\ probeResp.cl = 2
    /\ pc = "done"
    /\ result = NoErr
    /\ file = {<<0, 0>>, <<1, 1>>}

\* the probe got a response whose length is absent or unparsable
LengthUnknown ==
    /\ pc # "probe"
    /\ probeResp.ok
    /\ ~probeResp.hasCL \/ ~probeResp.clOK

\* C7 (as claimed): when the probe cannot determine the length the call fails
\* with the probe's error and neither the ranged path nor the fallback starts.
C7_ProbeErrorPropagates ==
    LengthUnknown =>
        /\ pc \notin {"download", "copy"}
        /\ pc = "done" => result.kind = perr
        /\ plainReqs.fallback = 0
        /\ num = 0

\* C8 (as claimed): range support and size 0 give a success without workers.
C8_ZeroSizeSucceeds ==
    (pc = "done" /\ perr = "nil" /\ file_size = 0) =>
        (result = NoErr /\ num = 0)

\* C9 (as claimed): workerCount < 1 on a range-capable origin with size > 0
\* gives an error and no worker, never a success.
C9_WorkerCountValidated ==
    (pc = "done" /\ perr = "nil" /\ file_size > 0 /\ worker_count < 1) =>
        (result # NoErr /\ num = 0)

\* C10 (as claimed): every byte a worker stores lies inside its range, so no
\* offset is written by two workers.
C10_WritesInsideRange ==
    /\ \A w \in writes : w[2] \in RangeSet(w[1])
    /\ \A w1, w2 \in writes : w1[2] = w2[2] => w1[1] = w2[1]

\* C11 (as claimed): on a success of the ranged path with workerCount >= 1
\* the destination holds, at every offset of [0,size), the resource byte of
\* that offset.
C11_RoundTrip ==
    (RangedReturn /\ worker_count >= 1 /\ result = NoErr) =>
        \A o \in 0 .. (file_size - 1) : <<o, o>> \in file

\* C12 (as claimed): a range request that fails or is answered with a
\* non-success status ends the worker with a request error for its part, and
\* the worker never reads the body nor writes to the file.
C12_BadStatusIsRequestError ==
    \A i \in Workers :
        /\ (rangeReqs[i] > 0 /\ wstatus[i] \notin {"none", "200", "206"}) =>
              /\ wpc[i] \notin {"check", "read"}
              /\ \A w \in writes : w[1] # i
              /\ wstop[i] \in {"none", "request"}
        /\ wstop[i] = "request" =>
              (wret[i] = Err("request", i) /\ \A w \in writes : w[1] # i)

\* the offsets part i has stored bytes at
Stored(i) == {w[2] : w \in {v \in writes : v[1] = i}}

\* writeRange of part i read its body to io.EOF
AtEndOfStream(i) == wstop[i] \in {"eos", "mismatch"}

\* C13 (as claimed): at end-of-stream the worker is Completed exactly when
\* written equals the declared length, else it fails with a size-mismatch
\* error naming its part, and the call returns that error.
C13_MismatchIsReturned ==
    \A i \in Workers :
        /\ AtEndOfStream(i) => (wstop[i] = "eos" <=> written[i] = wsize[i])
        /\ wstop[i] = "mismatch" => wret[i] = Err("size_not_match", i)
        /\ (RangedReturn /\ wstop[i] = "mismatch") =>
              result = Err("size_not_match", i)

\* C13 (amended): at end-of-stream the worker is Completed exactly when
\* written equals the declared length, else it fails with a size-mismatch
\* error naming its part; the call then returns a non-nil error, which is
\* that error unless another part's failure was kept first.
C13_MismatchFailsCall ==
    \A i \in Workers :
        /\ AtEndOfStream(i) => (wstop[i] = "eos" <=> written[i] = wsize[i])
        /\ wstop[i] = "eos" => wret[i] = NoErr
        /\ wstop[i] = "mismatch" => wret[i] = Err("size_not_match", i)
        /\ (RangedReturn /\ wstop[i] = "mismatch") =>
              /\ result # NoErr
              /\ \/ result = Err("size_not_match", i)
                 \/ \E j \in Parts : j # i /\ Failed(j) /\ result = wret[j]
              /\ (\A j \in Parts : j # i => ~Failed(j)) =>
                    result = Err("size_not_match", i)

\* C13 witness: part 0 read fewer bytes than declared, part 1 was cancelled,
\* and the call returned part 0's size-mismatch error
C13_Witness ==
    /\ RangedReturn
    /\ wstop[0] = "mismatch"
    /\ written[0] # wsize[0]
    /\ wstop[1] = "cancel"
    /\ result = Err("size_not_match", 0)

\* C14: within a worker the offset is always start plus the bytes written;
\* every WriteAt stores at the current offset, which then advances by the
\* bytes written, so the stored offsets are the gap-free run from start; a
\* write that stores fewer bytes than were read ends the worker with a write
\* error.
C14_OffsetsAdvance ==
    /\ [](\A i \in Launched :
            /\ woff[i] = wstart[i] + written[i]
            /\ written[i] >= 0
            /\ Stored(i) = wstart[i] .. (wstart[i] + Cardinality(Stored(i)) - 1)
            /\ wstop[i] \notin {"write_err", "short_write"} =>
                  Stored(i) = wstart[i] .. (woff[i] - 1)
            /\ wstop[i] \in {"write_err", "short_write"} =>
                  (wret[i] = Err("write", i) /\ wpc[i] \in {"returned", "done"}))
    /\ [][\A i \in Workers :
            /\ woff'[i] >= woff[i] \/ wpc[i] = "idle"
            /\ (wpc[i] = "read" /\ woff'[i] # woff[i]) =>
                  /\ written'[i] - written[i] = woff'[i] - woff[i]
                  /\ {w[2] : w \in {v \in writes' \ writes : v[1] = i}}
                        \subseteq woff[i] .. (woff'[i] - 1)
                  /\ woff[i] .. (woff'[i] - 1) \subseteq Stored(i)']_vars

\* C14 witness: a three-byte range stored in more than one chunk
C14_Witness ==
    /\ worker_count = 1
    /\ file_size = 3
    /\ wstop[0] = "eos"
    /\ written[0] = 3
    /\ woff[0] = 3
    /\ Stored(0) = {0, 1, 2}

\* C15: the cancellation signal is looked at before every chunk read. A check
\* that sees it makes the worker return without another read; a read begins
\* only from a check that did not see it, and is followed by the next check
\* or a return; the signal is never withdrawn. So after the signal a running
\* worker does at most the one read whose check preceded it.
C15_CancelCheckedPerChunk ==
    /\ [][\A i \in Workers :
            (ctxDone /\ wpc[i] = "check" /\ wpc'[i] # "check") =>
                /\ wpc'[i] = "returned"
                /\ wstop'[i] = "cancel"
                /\ writes' = writes
                /\ written'[i] = written[i]]_vars
    /\ [][\A i \in Workers :
            (wpc[i] # "read" /\ wpc'[i] = "read") =>
                (wpc[i] = "check" /\ ~ctxDone)]_vars
    /\ [][\A i \in Workers :
            (wpc[i] = "read" /\ wpc'[i] # "read") =>
                wpc'[i] \in {"check", "returned"}]_vars
    /\ [][ctxDone => ctxDone']_vars

\* C15 witness: part 1 had stored one byte of its two-byte range when it saw
\* the signal that part 0's failure had triggered
C15_Witness ==
    /\ Failed(0)
    /\ wstop[1] = "cancel"
    /\ wend[1] - wstart[1] + 1 = 2
    /\ written[1] = 1

\* C16 (as claimed): once the workers are being launched, the call
\* eventually returns.
C16_CallReturns == (pc = "launch") ~> (pc = "done")

\* C17: no retries. Each part is requested at most once and the fallback body
\* at most once; a part whose request or stream failed has been requested
\* exactly once and has returned, and the call then ends with a non-nil
\* error; a failed fallback is the call's result.
C17_NoRetries ==
    /\ \A i \in Workers :
          /\ rangeReqs[i] <= 1
          /\ wstop[i] \in {"request", "stream"} =>
                (rangeReqs[i] = 1 /\ wpc[i] \in {"returned", "done"})
    /\ plainReqs.fallback <= 1
    /\ plainReqs.probe <= 1
    /\ (RangedReturn /\ \E i \in Parts : wstop[i] \in {"request", "stream"}) =>
          result # NoErr
    /\ (pc = "done" /\ plainReqs.fallback = 1) =>
          (result.kind \in {"nil", "fallback_request", "create", "copy"}
             /\ \A i \in Workers : rangeReqs[i] = 0)

\* C17 witness: the call returned after the request of part 0 failed and the
\* stream of part 1 broke, each part requested once
C17_Witness ==
    /\ RangedReturn
    /\ wstop[0] = "request"
    /\ wstop[1] = "stream"
    /\ rangeReqs[0] = 1
    /\ rangeReqs[1] = 1
    /\ result # NoErr

\* C18: once the call has returned the destination handle is closed, and as
\* long as a worker has not terminated the handle is open.
C18_FileClosedAfterWorkers ==
    /\ pc = "done" => ~fileOpen
    /\ \A i \in Workers : wpc[i] \notin {"idle", "done"} => fileOpen
    /\ (pc = "launch" /\ num < worker_count) => fileOpen

\* C18 witness: the call returned a failure, both workers done, handle closed
C18_Witness ==
    /\ RangedReturn
    /\ worker_count = 2
    /\ result # NoErr
    /\ writes # {}
    /\ ~fileOpen
    /\ \A i \in Parts : wpc[i] = "done"

\* C19 (as claimed): every range handed to a worker is non-empty and starts
\* at a non-negative offset.
C19_RangesNonEmpty ==
    \A i \in Launched : 0 <= wstart[i] /\ wstart[i] <= wend[i]

\* C20 (as claimed): when the call has returned, every response body it
\* obtained is closed.
C20_BodiesClosed ==
    pc = "done" =>
        /\ ~probeBodyOpen
        /\ ~dlBodyOpen
        /\ \A i \in Workers : ~bodyOpen[i]

====
